---- MODULE Spec2Model ----
(***************************************************************************)
(* Model of clean_links_bot.py: the URL cleaning functions (clean_url,     *)
(* clean_youtube, clean_twitter), the dedup cache (is_new_message), the    *)
(* message handler (handle_message) and the admin toggle                   *)
(* (set_delete_mode, save_config, load_config).                            *)
(*                                                                         *)
(* A Python str is modelled as a sequence of atoms, each atom a substring  *)
(* that the functions used here never split ("https:", "//", "youtu.be",   *)
(* "/p", "?", "t", "=", "1", "&", "#", ...).  Two strs are equal exactly   *)
(* when their atom sequences are equal.  Offsets and lengths of message    *)
(* entities count atoms.                                                   *)
(***************************************************************************)
EXTENDS Integers, Sequences, FiniteSets, TLC

VARIABLES
    processed_queue,          \* deque(maxlen=DEDUP_CACHE_SIZE) of message ids
    DELETE_ORIGINAL_BY_CHAT,  \* dict chat_id -> bool (a function on its keys)
    config_file,              \* content of CONFIG_FILE on disk
    pc,                       \* per invocation slot: position in handle_message
    cur,                      \* per invocation slot: the message being handled
    passed,                   \* per invocation slot: the dedup gate let it pass
    final_text,               \* per invocation slot: the local final_text
    calls,                    \* per invocation slot: calls issued (outbound, save_config), in order
    admissions,               \* history: the ids appended to processed_queue, in order
    cu                        \* clean_url under test: input, result, result of result

vars == <<processed_queue, DELETE_ORIGINAL_BY_CHAT, config_file, pc, cur, passed, final_text,
          calls, admissions, cu>>

None == "None"
ValueError == "ValueError"

-----------------------------------------------------------------------------
(* Bounds of the model *)

\* largest number of query parts in a generated URL
MaxParams == 3

-----------------------------------------------------------------------------
(* Sequence helpers (Python str / list operations) *)

Min(a, b) == IF a < b THEN a ELSE b
Max(a, b) == IF a > b THEN a ELSE b

\* s[a:b] of Python, 0-based, clamped to the sequence
Slice(s, a, b) == SubSeq(s, Min(a, Len(s)) + 1, Min(b, Len(s)))

\* s[a:]
SliceFrom(s, a) == SubSeq(s, Min(a, Len(s)) + 1, Len(s))

\* index (1-based) of the first occurrence of atom d in s, 0 when absent
Find(s, d) ==
    IF \E i \in 1..Len(s) : s[i] = d
    THEN CHOOSE i \in 1..Len(s) : s[i] = d /\ \A j \in 1..(i - 1) : s[j] # d
    ELSE 0

RECURSIVE Split(_, _)
\* s.split(d): the list of the pieces of s between the occurrences of d
Split(s, d) ==
    LET i == Find(s, d)
    IN  IF i = 0 THEN <<s>>
        ELSE <<SubSeq(s, 1, i - 1)>> \o Split(SubSeq(s, i + 1, Len(s)), d)

RECURSIVE Join(_, _)
\* d.join(list)
Join(list, d) ==
    IF Len(list) = 0 THEN <<>>
    ELSE IF Len(list) = 1 THEN list[1]
    ELSE list[1] \o <<d>> \o Join(Tail(list), d)

Range(s) == {s[i] : i \in 1..Len(s)}

-----------------------------------------------------------------------------
(* Program constants *)

DEDUP_CACHE_SIZE == 10

YOUTUBE_HOSTS == {"youtube.com", "www.youtube.com", "m.youtube.com", "youtu.be"}

TWITTER_HOSTS == {"twitter.com", "www.twitter.com", "mobile.twitter.com",
                  "x.com", "www.x.com"}

YOUTUBE_ALLOWED_PARAMS == {"v", "t", "time_continue", "list", "index"}

\* the short-link host and the only key clean_youtube keeps for it
YOUTUBE_SHORT_HOSTS == {"youtu.be"}
YOUTUBE_SHORT_PARAMS == {"t"}

-----------------------------------------------------------------------------
(* urllib.parse as used by the cleaning functions *)

SchemeAtoms == {"https:", "HTTPS:"}

\* the scheme of a scheme atom, lower-cased as urlsplit does
SchemeOf(a) == IF a \in SchemeAtoms THEN "https" ELSE ""

\* scheme + ':' of urlunsplit
SchemeAtom(scheme) == IF scheme = "https" THEN "https:" ELSE "<no scheme>"

\* str.lower() on the netlocs of the model
Lower(a) ==
    CASE a = "YOUTU.BE" -> "youtu.be"
      [] a = "WWW.YouTube.com" -> "www.youtube.com"
      [] a = "X.com" -> "x.com"
      [] OTHER -> a

\* a netloc with an unmatched bracket makes urlsplit raise ValueError
InvalidNetloc(a) == a = "[x.com"

\* the atoms that end a netloc
IsPathAtom(a) == a \in {"/p", "/watch"}

\* urlparse(url): scheme, netloc, path, query, fragment (path keeps ;params);
\* error is the exception raised instead of a result, None when there is none
urlparse(url) ==
    LET hasScheme == Len(url) > 0 /\ url[1] \in SchemeAtoms
        scheme == IF hasScheme THEN SchemeOf(url[1]) ELSE ""
        rest1 == IF hasScheme THEN Tail(url) ELSE url
        hasNet == Len(rest1) > 0 /\ rest1[1] = "//"
        afterSl == IF hasNet THEN Tail(rest1) ELSE rest1
        netAtom == hasNet /\ Len(afterSl) > 0
                   /\ ~IsPathAtom(afterSl[1]) /\ afterSl[1] \notin {"?", "#"}
        netloc == IF netAtom THEN afterSl[1] ELSE ""
        rest2 == IF netAtom THEN Tail(afterSl) ELSE afterSl
        h == Find(rest2, "#")
        fragment == IF h = 0 THEN <<>> ELSE SubSeq(rest2, h + 1, Len(rest2))
        rest3 == IF h = 0 THEN rest2 ELSE SubSeq(rest2, 1, h - 1)
        q == Find(rest3, "?")
        query == IF q = 0 THEN <<>> ELSE SubSeq(rest3, q + 1, Len(rest3))
        path == IF q = 0 THEN rest3 ELSE SubSeq(rest3, 1, q - 1)
    IN  [error |-> IF InvalidNetloc(netloc) THEN ValueError ELSE None,
         scheme |-> scheme, netloc |-> netloc, path |-> path,
         query |-> query, fragment |-> fragment]

\* urlunparse(parsed): empty query and fragment lose their "?" and "#"
urlunparse(p) ==
    LET url0 == IF p.netloc # "" THEN <<"//", p.netloc>> \o p.path ELSE p.path
        url1 == IF p.scheme # "" THEN <<SchemeAtom(p.scheme)>> \o url0 ELSE url0
        url2 == IF Len(p.query) > 0 THEN url1 \o <<"?">> \o p.query ELSE url1
    IN  IF Len(p.fragment) > 0 THEN url2 \o <<"#">> \o p.fragment ELSE url2

\* unquote(atom.replace('+', ' ')) of parse_qsl, atom by atom
Unquote(a) ==
    CASE a = "%74" -> "t"
      [] a = "a%20b" -> "a b"
      [] a = "a+b" -> "a b"
      [] a = "%3D" -> "="
      [] OTHER -> a

\* quote_plus of urlencode, atom by atom
QuotePlus(a) ==
    CASE a = "a b" -> "a+b"
      [] a = "=" -> "%3D"
      [] OTHER -> a

UnquoteAll(s) == [i \in 1..Len(s) |-> Unquote(s[i])]
QuotePlusAll(s) == [i \in 1..Len(s) |-> QuotePlus(s[i])]

\* one name=value piece of parse_qsl: split at the first "=", a missing value is ''
ParsePair(nv) ==
    LET e == Find(nv, "=")
    IN  IF e = 0 THEN <<UnquoteAll(nv), <<>>>>
        ELSE <<UnquoteAll(SubSeq(nv, 1, e - 1)), UnquoteAll(SubSeq(nv, e + 1, Len(nv)))>>

NonEmpty(s) == Len(s) > 0

\* parse_qsl(query, keep_blank_values=True): a list of (name, value) pairs
parse_qsl(query) ==
    IF Len(query) = 0 THEN <<>>
    ELSE LET pieces == SelectSeq(Split(query, "&"), NonEmpty)
         IN  [i \in 1..Len(pieces) |-> ParsePair(pieces[i])]

\* urlencode(pairs, doseq=True)
urlencode(pairs) ==
    Join([i \in 1..Len(pairs) |->
             QuotePlusAll(pairs[i][1]) \o <<"=">> \o QuotePlusAll(pairs[i][2])], "&")

-----------------------------------------------------------------------------
(* URL cleaning *)

\* k in S for a parsed name k and a set S of one-atom names
KeyIn(k, S) == Len(k) = 1 /\ k[1] \in S

\* mutant: the tracking parameter si is let through
IsAllowedParam_WithSi(kv) == KeyIn(kv[1], YOUTUBE_ALLOWED_PARAMS \cup {"si"})

IsShortParam(kv) == KeyIn(kv[1], YOUTUBE_SHORT_PARAMS)
IsAllowedParam(kv) == KeyIn(kv[1], YOUTUBE_ALLOWED_PARAMS)

\* parsed.netloc in {"youtu.be"}: the netloc as written, not lower-cased
IsShortLink(netloc) == netloc \in YOUTUBE_SHORT_HOSTS

\* mutant: only the first parameter that is not allowed is removed
clean_youtube_DropFirstOnly(url) ==
    LET parsed == urlparse(url)
        query == parse_qsl(parsed.query)
        Bad(i) == IF IsShortLink(parsed.netloc) THEN ~IsShortParam(query[i])
                  ELSE ~IsAllowedParam(query[i])
        first == IF \E i \in 1..Len(query) : Bad(i)
                 THEN CHOOSE i \in 1..Len(query) : Bad(i) /\ \A j \in 1..(i - 1) : ~Bad(j)
                 ELSE 0
        filtered == IF first = 0 THEN query
                    ELSE SubSeq(query, 1, first - 1) \o SubSeq(query, first + 1, Len(query))
    IN  urlunparse([parsed EXCEPT !.query = urlencode(filtered)])

clean_youtube(url) ==
    LET parsed == urlparse(url)
        query == parse_qsl(parsed.query)
        filtered == IF IsShortLink(parsed.netloc)
                    THEN SelectSeq(query, IsShortParam)
                    ELSE SelectSeq(query, IsAllowedParam)
    IN  urlunparse([parsed EXCEPT !.query = urlencode(filtered)])

\* mutant: the fragment is dropped with the query
clean_twitter_DropFragment(url) ==
    LET parsed == urlparse(url)
    IN  urlunparse([parsed EXCEPT !.query = <<>>, !.fragment = <<>>])

clean_twitter(url) ==
    LET parsed == urlparse(url)
    IN  urlunparse([parsed EXCEPT !.query = <<>>])

\* mutant: the port is cut off before the host is looked up
HostOf_NoPort(parsed) ==
    IF parsed.netloc = "youtu.be:443" THEN "youtu.be" ELSE Lower(parsed.netloc)

\* host = parsed.netloc.lower()
HostOf(parsed) == Lower(parsed.netloc)

clean_url(url) ==
    LET parsed == urlparse(url)
    IN  IF parsed.error # None THEN url
        ELSE IF HostOf(parsed) \in YOUTUBE_HOSTS THEN clean_youtube(url)
        ELSE IF HostOf(parsed) \in TWITTER_HOSTS THEN clean_twitter(url)
        ELSE url

-----------------------------------------------------------------------------
(* The URLs the cleaning functions are applied to *)

RawParts ==
    { <<>>, <<"t">>, <<"t", "=", "1">>, <<"%74", "=", "2">>, <<"si", "=", "x">>,
      <<"v", "=", "a%20b">>, <<"list", "=", "1", "=", "2">> }

\* "" or "?" followed by 1..MaxParams parts joined by "&"
QueryStrings ==
    {<<>>} \cup { <<"?">> \o Join(ps, "&") :
                    ps \in UNION { [1..n -> RawParts] : n \in 1..MaxParams } }

Netlocs ==
    YOUTUBE_HOSTS \cup TWITTER_HOSTS \cup
    {"YOUTU.BE", "WWW.YouTube.com", "X.com", "example.com", "youtu.be:443", "[x.com"}

\* what surrounds the netloc and the query: <<before, path, fragment>>
Shapes ==
    { << <<"https:", "//">>, <<>>, <<>> >>,
      << <<"HTTPS:", "//">>, <<"/p">>, <<"#", "f">> >>,
      << <<"//">>, <<"/watch">>, <<>> >>,
      << <<>>, <<"/p">>, <<>> >> }

Garbage == <<"not", " ", "a", " ", "url">>

Urls ==
    { sh[1] \o <<n>> \o sh[2] \o q \o sh[3] :
        sh \in Shapes, n \in Netlocs, q \in QueryStrings } \cup {Garbage}

-----------------------------------------------------------------------------
(* Specification SpecClean: clean_url applied to a URL, then to its result *)

HandlerIdle ==
    /\ processed_queue = <<>>
    /\ DELETE_ORIGINAL_BY_CHAT = <<>>
    /\ config_file = <<>>
    /\ pc = <<>>
    /\ cur = <<>>
    /\ passed = <<>>
    /\ final_text = <<>>
    /\ calls = <<>>
    /\ admissions = <<>>

HandlerVars == <<processed_queue, DELETE_ORIGINAL_BY_CHAT, config_file, pc, cur,
                 passed, final_text, calls, admissions>>

InitClean ==
    /\ HandlerIdle
    /\ \E u \in Urls : cu = [u |-> u, r |-> <<>>, rr |-> <<>>, phase |-> 0]

\* r = clean_url(u)
CleanUrlCall ==
    /\ cu.phase = 0
    /\ cu' = [cu EXCEPT !.r = clean_url(cu.u), !.phase = 1]
    /\ UNCHANGED HandlerVars

\* rr = clean_url(r)
CleanUrlAgain ==
    /\ cu.phase = 1
    /\ cu' = [cu EXCEPT !.rr = clean_url(cu.r), !.phase = 2]
    /\ UNCHANGED HandlerVars

NextClean == CleanUrlCall \/ CleanUrlAgain

SpecClean == InitClean /\ [][NextClean]_vars

-----------------------------------------------------------------------------
(* Dedup cache *)

\* deque.append with maxlen: a full deque drops its oldest (leftmost) element
\* a deque without maxlen: nothing is ever evicted
DequeAppend_Unbounded(q, x) == q \o <<x>>

DequeAppend(q, x) ==
    IF Len(q) = DEDUP_CACHE_SIZE THEN Tail(q) \o <<x>> ELSE q \o <<x>>

\* a gate that remembers the newest id only
is_new_message_LastOnly(q, mid) == Len(q) = 0 \/ q[Len(q)] # mid

\* a gate that lets every delivery pass
is_new_message_Always(q, mid) == TRUE

\* is_new_message(mid): the value returned
is_new_message(q, mid) == mid \notin Range(q)

\* a gate whose insert has not happened when the call returns
QueueAfter_InsertLater(q, mid) == q

\* a cache that moves an id found to the newest end
QueueAfter_Refresh(q, mid) ==
    IF mid \in Range(q)
    THEN SelectSeq(q, LAMBDA x : x # mid) \o <<mid>>
    ELSE DequeAppend(q, mid)

\* is_new_message(mid): processed_queue after the call
QueueAfter(q, mid) == IF mid \in Range(q) THEN q ELSE DequeAppend(q, mid)

-----------------------------------------------------------------------------
(* Messages *)

\* the group chats the message handler is subscribed to
Chats == {-1001, -1002}

\* message.from_user: absent, a bot, a user with a username, one without
NoUser == [present |-> FALSE, is_bot |-> FALSE, username |-> "", full_name |-> ""]
BotUser == [present |-> TRUE, is_bot |-> TRUE, username |-> "some_bot", full_name |-> "Bot"]
Alice == [present |-> TRUE, is_bot |-> FALSE, username |-> "alice", full_name |-> "Alice A"]
Bob == [present |-> TRUE, is_bot |-> FALSE, username |-> "", full_name |-> "Bob B"]
Users == {NoUser, BotUser, Alice, Bob}

\* MessageEntity(type, offset, length, url)
Ent(type, offset, length, url) ==
    [type |-> type, offset |-> offset, length |-> length, url |-> url]

UrlShortSi == <<"https:", "//", "youtu.be", "/p", "?", "si", "=", "x">>
UrlExample == <<"https:", "//", "example.com", "/p", "?", "si", "=", "x">>
UrlWatchClean == <<"https:", "//", "www.youtube.com", "/watch", "?", "v", "=", "1">>
UrlX == <<"https:", "//", "x.com", "/p", "?", "t", "=", "1">>

Body(text, entities, caption, caption_entities) ==
    [text |-> text, entities |-> entities,
     caption |-> caption, caption_entities |-> caption_entities]

\* one cleanable literal URL after two words
BodyShort == Body(<<"see", " ">> \o UrlShortSi, <<Ent("url", 2, 8, <<>>)>>, <<>>, <<>>)
\* one literal URL of an unknown host
BodyExample == Body(UrlExample, <<Ent("url", 0, 8, <<>>)>>, <<>>, <<>>)
\* one literal URL of a known host that is already clean
BodyWatchClean == Body(UrlWatchClean, <<Ent("url", 0, 8, <<>>)>>, <<>>, <<>>)
\* text without entities
BodyPlain == Body(<<"hello">>, <<>>, <<>>, <<>>)
\* text whose only entity is neither a URL nor a text link
BodyMention == Body(<<"@bob", " ", "hi">>, <<Ent("mention", 0, 1, <<>>)>>, <<>>, <<>>)
\* neither text nor caption
BodyEmpty == Body(<<>>, <<>>, <<>>, <<>>)
\* a photo whose caption holds a cleanable literal URL
BodyCaption == Body(<<>>, <<>>, UrlX \o <<" ", "pic">>, <<Ent("url", 0, 8, <<>>)>>)
\* a masked link to a cleanable URL
BodyTextLink == Body(<<"click", " ", "here">>, <<Ent("text_link", 0, 1, UrlX)>>, <<>>, <<>>)
\* a masked link to a URL of an unknown host
BodyTextLinkExample ==
    Body(<<"click", " ", "here">>, <<Ent("text_link", 2, 1, UrlExample)>>, <<>>, <<>>)
\* three literal URLs, the first unchanged by cleaning, and a masked link
BodyMixed ==
    Body(UrlExample \o <<" ">> \o UrlShortSi \o <<" ">> \o UrlX \o <<" ", "more">>,
         <<Ent("url", 0, 8, <<>>), Ent("url", 9, 8, <<>>), Ent("url", 18, 8, <<>>),
           Ent("text_link", 27, 1, UrlShortSi)>>, <<>>, <<>>)

Bodies == {BodyShort, BodyExample, BodyWatchClean, BodyPlain, BodyMention, BodyEmpty,
           BodyCaption, BodyTextLink, BodyTextLinkExample, BodyMixed}

\* every body from a user with a username, and the first body from every sender
Contents == (Bodies \X {Alice}) \cup ({BodyShort} \X Users)

\* reply_to_message_id of a call that passes none; message_id where none is read
NoReplyTo == 0

Message(mid, chat, c) ==
    [handler |-> "handle_message", message_id |-> mid, chat_id |-> chat, from_user |-> c[2],
     text |-> c[1].text, entities |-> c[1].entities,
     caption |-> c[1].caption, caption_entities |-> c[1].caption_entities]

\* the message of a /cleanlinks_delete command, routed to set_delete_mode
Command(chat, args) ==
    [handler |-> "set_delete_mode", message_id |-> NoReplyTo, chat_id |-> chat,
     from_user |-> Alice, text |-> <<"/cleanlinks_delete">> \o args, entities |-> <<>>,
     caption |-> <<>>, caption_entities |-> <<>>]

\* the value of cur for a slot that has handled nothing yet
NoMessage ==
    [handler |-> "none", message_id |-> NoReplyTo, chat_id |-> NoReplyTo,
     from_user |-> NoUser, text |-> <<>>, entities |-> <<>>,
     caption |-> <<>>, caption_entities |-> <<>>]

-----------------------------------------------------------------------------
(* handle_message: the pure part, from the message to the text to post *)

RECURSIVE extract_urls(_, _)
extract_urls(text, entities) ==
    IF Len(entities) = 0 THEN <<>>
    ELSE LET ent == entities[1]
             here == IF ent.type = "url"
                     THEN << <<Slice(text, ent.offset, ent.offset + ent.length), ent>> >>
                     ELSE IF ent.type = "text_link" /\ ent.url # <<>>
                     THEN << <<ent.url, ent>> >>
                     ELSE <<>>
         IN  here \o extract_urls(text, Tail(entities))

\* text = message.text or message.caption
TextOf(m) == IF m.text # <<>> THEN m.text ELSE m.caption

\* entities = message.entities or message.caption_entities or []
EntitiesOf(m) == IF m.entities # <<>> THEN m.entities ELSE m.caption_entities

\* the dict built by lines 199-203, cleaned[i] being clean_url of the i-th url
MappingOf(url_entities, cleaned) ==
    LET changed == {i \in 1..Len(url_entities) : cleaned[i] # url_entities[i][1]}
    IN  [orig \in {url_entities[i][1] : i \in changed} |->
            cleaned[CHOOSE i \in changed : url_entities[i][1] = orig]]

\* cleaned_mapping: original url -> cleaned url, only where cleaning changed it
CleanedMapping(url_entities) ==
    MappingOf(url_entities,
              [i \in 1..Len(url_entities) |-> clean_url(url_entities[i][1])])

\* dict.get(key, default)
Get(d, key, default) == IF key \in DOMAIN d THEN d[key] ELSE default

\* the pairs taken in the order extract_urls returned them
SortedByOffsetReverse_Unsorted(ues) == ues

RECURSIVE SortedByOffsetReverse(_)
\* sorted(url_entities, key=offset, reverse=True): stable for equal offsets
SortedByOffsetReverse(ues) ==
    IF Len(ues) = 0 THEN <<>>
    ELSE LET x == ues[1]
             rest == SortedByOffsetReverse(Tail(ues))
             before == SelectSeq(rest, LAMBDA y : y[2].offset > x[2].offset)
             after == SelectSeq(rest, LAMBDA y : y[2].offset <= x[2].offset)
         IN  before \o <<x>> \o after

RECURSIVE Splice(_, _, _)
\* the loop of lines 210-217 over the sorted pairs
Splice(cleaned_text, sorted, mapping) ==
    IF Len(sorted) = 0 THEN cleaned_text
    ELSE LET original_url == sorted[1][1]
             ent == sorted[1][2]
             cleaned == Get(mapping, original_url, original_url)
             next == IF ent.type = "url"
                     THEN Slice(cleaned_text, 0, ent.offset) \o cleaned
                          \o SliceFrom(cleaned_text, ent.offset + ent.length)
                     ELSE cleaned_text
         IN  Splice(next, Tail(sorted), mapping)

\* a list with a line for every text link, cleaned or not
ExtraCleanedLinks_All(url_entities, mapping) ==
    LET picked == SelectSeq(url_entities, LAMBDA ue : ue[2].type = "text_link")
    IN  [i \in 1..Len(picked) |-> Get(mapping, picked[i][1], picked[i][1])]

\* extra_cleaned_links: the cleaned urls of the text links, in entity order
ExtraCleanedLinks(url_entities, mapping) ==
    LET picked == SelectSeq(url_entities,
                    LAMBDA ue : ue[2].type = "text_link" /\ ue[1] \in DOMAIN mapping
                                /\ mapping[ue[1]] # <<>>)
    IN  [i \in 1..Len(picked) |-> mapping[picked[i][1]]]

\* "\n\nCleaned links:\n" + "\n".join(extra_cleaned_links), when there are any
WithExtra(spliced, extra) ==
    IF Len(extra) > 0
    THEN spliced \o <<"\n\nCleaned links:\n">> \o Join(extra, "\n")
    ELSE spliced

\* lines 189-231 without the test of the author before them
Rewritten_AnswerBots(m, text, ues, mapping, spliced, extra) ==
    LET verdict ==
            IF text = <<>> THEN "no_text"
            ELSE IF Len(ues) = 0 THEN "no_urls"
            ELSE IF DOMAIN mapping = {} THEN "nothing_to_change"
            ELSE IF WithExtra(spliced, extra) = text /\ Len(extra) = 0
                 THEN "no_visible_change"
            ELSE "dispatch"
    IN  [verdict |-> verdict,
         cleaned_text |-> IF verdict = "dispatch" THEN WithExtra(spliced, extra) ELSE <<>>]

\* the bail-out of line 230 without its test of extra_cleaned_links
Rewritten_IgnoreExtra(m, text, ues, mapping, spliced, extra) ==
    LET verdict ==
            IF m.from_user.present /\ m.from_user.is_bot THEN "own_message"
            ELSE IF text = <<>> THEN "no_text"
            ELSE IF Len(ues) = 0 THEN "no_urls"
            ELSE IF DOMAIN mapping = {} THEN "nothing_to_change"
            ELSE IF spliced = text THEN "no_visible_change"
            ELSE "dispatch"
    IN  [verdict |-> verdict,
         cleaned_text |-> IF verdict = "dispatch" THEN WithExtra(spliced, extra) ELSE <<>>]

\* lines 185-231 once text, url_entities and cleaned_mapping are known: where
\* handle_message returns ("dispatch" when it goes on to post), and cleaned_text
Rewritten(m, text, ues, mapping, spliced, extra) ==
    LET verdict ==
            IF m.from_user.present /\ m.from_user.is_bot THEN "own_message"
            ELSE IF text = <<>> THEN "no_text"
            ELSE IF Len(ues) = 0 THEN "no_urls"
            ELSE IF DOMAIN mapping = {} THEN "nothing_to_change"
            ELSE IF WithExtra(spliced, extra) = text /\ Len(extra) = 0
                 THEN "no_visible_change"
            ELSE "dispatch"
    IN  [verdict |-> verdict,
         cleaned_text |-> IF verdict = "dispatch" THEN WithExtra(spliced, extra) ELSE <<>>]

Mapped(m, text, ues, mapping) ==
    Rewritten(m, text, ues, mapping,
              Splice(text, SortedByOffsetReverse(ues), mapping),
              ExtraCleanedLinks(ues, mapping))

Extracted(m, text, ues) == Mapped(m, text, ues, CleanedMapping(ues))

\* handle_message from line 185 to line 231
Pipeline(m) == Extracted(m, TextOf(m), extract_urls(TextOf(m), EntitiesOf(m)))

\* the attribution of lines 234-243
Author(user) ==
    IF user.present
    THEN IF user.username # "" THEN <<"@", user.username>>
         ELSE IF user.full_name # "" THEN <<user.full_name>>
         ELSE <<"ktos">>
    ELSE <<"ktos">>

FUNNY_INTROS == <<"intro1", "intro2", "intro3", "intro4", "intro5",
                  "intro6", "intro7", "intro8", "intro9", "intro10">>

\* final_text of line 246
FinalText(m, intro, cleaned_text) ==
    <<intro, "\nOd ">> \o Author(m.from_user) \o <<"\n">> \o cleaned_text

-----------------------------------------------------------------------------
(* Per-chat configuration: load_config, save_config *)

\* str(chat_id) of save_config
StrOf(chat_id) ==
    CASE chat_id = -1001 -> "-1001"
      [] chat_id = -1002 -> "-1002"
      [] OTHER -> "5"

\* int(k) of load_config
IntOf(k) ==
    CASE k = "-1001" -> -1001
      [] k = "-1002" -> -1002
      [] OTHER -> 5

\* CONFIG_FILE does not exist / holds something json.load rejects
Missing == [kind |-> "missing", doc |-> <<>>]
Corrupt == [kind |-> "corrupt", doc |-> <<>>]

\* CONFIG_FILE holding {"delete_original_by_chat": doc}
JsonFile(doc) == [kind |-> "json", doc |-> doc]

\* the document save_config writes for the dict d
Dump(d) == [k \in {StrOf(c) : c \in DOMAIN d} |-> d[IntOf(k)]]

\* load_config: DELETE_ORIGINAL_BY_CHAT for the file found
load_config(file) ==
    IF file.kind = "json"
    THEN [c \in {IntOf(k) : k \in DOMAIN file.doc} |-> file.doc[StrOf(c)]]
    ELSE <<>>

\* a save that writes CONFIG_FILE in place: a failure leaves it truncated
save_config_InPlace(file, d, written) == IF written THEN JsonFile(Dump(d)) ELSE Corrupt

\* save_config: CONFIG_FILE afterwards; written is FALSE when writing the
\* temporary file or renaming it raised (the exception is caught and logged)
save_config(file, d, written) == IF written THEN JsonFile(Dump(d)) ELSE file

\* the files the process may find when it starts
InitialFiles == {Missing, Corrupt, JsonFile([k \in {"-1001"} |-> TRUE])}

-----------------------------------------------------------------------------
(* The handlers as actions *)

\* slots for handler invocations; an invocation takes the first free slot
NumSlots == 2
Slots == 1..NumSlots

Free(s) == pc[s] \in {"idle", "returned", "raised"}
AllFree == \A s \in Slots : Free(s)
FirstFree(s) == Free(s) /\ \A t \in 1..(s - 1) : ~Free(t)

DeleteCall(m) ==
    [op |-> "delete_message", chat_id |-> m.chat_id, message_id |-> m.message_id,
     text |-> <<>>, reply_to_message_id |-> NoReplyTo, result |-> "pending"]

SendCall(m, text, reply_to) ==
    [op |-> "send_message", chat_id |-> m.chat_id, message_id |-> NoReplyTo,
     text |-> text, reply_to_message_id |-> reply_to, result |-> "pending"]

\* update.effective_message.reply_text(text) of the command handler
ReplyCall(m, text) ==
    [op |-> "reply_text", chat_id |-> m.chat_id, message_id |-> NoReplyTo,
     text |-> <<text>>, reply_to_message_id |-> NoReplyTo, result |-> "ok"]

\* context.bot.get_chat_member(chat.id, user.id), returning a member of that status
GetChatMemberCall(m, status) ==
    [op |-> "get_chat_member", chat_id |-> m.chat_id, message_id |-> NoReplyTo,
     text |-> <<>>, reply_to_message_id |-> NoReplyTo, result |-> status]

\* save_config(): returns after writing the file, or after logging its failure
SaveConfigCall(m, written) ==
    [op |-> "save_config", chat_id |-> m.chat_id, message_id |-> NoReplyTo,
     text |-> <<>>, reply_to_message_id |-> NoReplyTo,
     result |-> IF written THEN "ok" ELSE "failed"]

\* the last call of the log completed with the given result
Completed(log, result) == [log EXCEPT ![Len(log)].result = result]

Init ==
    /\ processed_queue = <<>>
    /\ config_file \in InitialFiles
    /\ DELETE_ORIGINAL_BY_CHAT = load_config(config_file)
    /\ pc = [s \in Slots |-> "idle"]
    /\ cur = [s \in Slots |-> NoMessage]
    /\ passed = [s \in Slots |-> FALSE]
    /\ final_text = [s \in Slots |-> <<>>]
    /\ calls = [s \in Slots |-> <<>>]
    /\ admissions = <<>>
    /\ cu = [u |-> <<>>, r |-> <<>>, rr |-> <<>>, phase |-> 0]

\* the message ids an update may carry when at most max ids are ever appended
\* to the cache: any id still cached, the ids handled before, the next new one
OfferedIds(max) ==
    Range(processed_queue) \cup
    (IF Len(admissions) < max THEN 1..(Len(admissions) + 1) ELSE {})

\* the first phrases of FUNNY_INTROS that random.choice is let to draw
MaxIntro == 2
Intros == {FUNNY_INTROS[i] : i \in 1..Min(MaxIntro, Len(FUNNY_INTROS))}

\* handle_message from line 233 to its first await, or its return before that;
\* new: the dedup gate let the message pass, p: Pipeline(m)
Dispatch(s, m, new, p) ==
    IF ~(new /\ p.verdict = "dispatch")
    THEN /\ final_text' = [final_text EXCEPT ![s] = <<>>]
         /\ pc' = [pc EXCEPT ![s] = "returned"]
         /\ calls' = [calls EXCEPT ![s] = <<>>]
    ELSE \E intro \in Intros :
         /\ final_text' = [final_text EXCEPT ![s] = FinalText(m, intro, p.cleaned_text)]
         /\ IF Get(DELETE_ORIGINAL_BY_CHAT, m.chat_id, FALSE)
            THEN /\ pc' = [pc EXCEPT ![s] = "await_delete"]
                 /\ calls' = [calls EXCEPT ![s] = <<DeleteCall(m)>>]
            ELSE /\ pc' = [pc EXCEPT ![s] = "await_send"]
                 /\ calls' = [calls EXCEPT ![s] =
                                 <<SendCall(m, final_text'[s], m.message_id)>>]

\* a handler whose gate comes after the eligibility checks: only a message
\* that is going to be answered is looked up and recorded
HandleMessage_GateLast(s, m) ==
    /\ FirstFree(s)
    /\ cur' = [cur EXCEPT ![s] = m]
    /\ passed' = [passed EXCEPT ![s] =
                     Pipeline(m).verdict = "dispatch"
                     /\ is_new_message(processed_queue, m.message_id)]
    /\ processed_queue' = IF Pipeline(m).verdict = "dispatch"
                          THEN QueueAfter(processed_queue, m.message_id)
                          ELSE processed_queue
    /\ admissions' = IF Pipeline(m).verdict = "dispatch"
                        /\ processed_queue' # processed_queue
                     THEN Append(admissions, m.message_id) ELSE admissions
    /\ Dispatch(s, m, passed'[s], Pipeline(m))
    /\ UNCHANGED <<DELETE_ORIGINAL_BY_CHAT, config_file, cu>>

\* handle_message from its entry to its first await (lines 174-254 / 264)
HandleMessage(s, m) ==
    /\ FirstFree(s)
    /\ cur' = [cur EXCEPT ![s] = m]
    /\ passed' = [passed EXCEPT ![s] = is_new_message(processed_queue, m.message_id)]
    /\ processed_queue' = QueueAfter(processed_queue, m.message_id)
    /\ admissions' = IF processed_queue' # processed_queue
                     THEN Append(admissions, m.message_id) ELSE admissions
    /\ Dispatch(s, m, passed'[s], Pipeline(m))
    /\ UNCHANGED <<DELETE_ORIGINAL_BY_CHAT, config_file, cu>>

\* delete mode posting the replacement as a reply to the original
DeleteDone_AsReply(s, ok) ==
    /\ pc[s] = "await_delete"
    /\ calls' = [calls EXCEPT ![s] =
                    Completed(calls[s], IF ok THEN "ok" ELSE "failed")
                    \o <<SendCall(cur[s], final_text[s], cur[s].message_id)>>]
    /\ pc' = [pc EXCEPT ![s] = "await_send"]
    /\ UNCHANGED <<processed_queue, DELETE_ORIGINAL_BY_CHAT, config_file, cur,
                   passed, final_text, admissions, cu>>

\* a delete whose exception is not caught: the invocation ends without the send
DeleteDone_Uncaught(s, ok) ==
    /\ pc[s] = "await_delete"
    /\ calls' = [calls EXCEPT ![s] =
                    IF ok
                    THEN Completed(calls[s], "ok")
                         \o <<SendCall(cur[s], final_text[s], NoReplyTo)>>
                    ELSE Completed(calls[s], "failed")]
    /\ pc' = [pc EXCEPT ![s] = IF ok THEN "await_send" ELSE "raised"]
    /\ UNCHANGED <<processed_queue, DELETE_ORIGINAL_BY_CHAT, config_file, cur,
                   passed, final_text, admissions, cu>>

\* message.delete() completes or raises; either way the replacement is sent
\* (lines 253-261)
DeleteDone(s, ok) ==
    /\ pc[s] = "await_delete"
    /\ calls' = [calls EXCEPT ![s] =
                    Completed(calls[s], IF ok THEN "ok" ELSE "failed")
                    \o <<SendCall(cur[s], final_text[s], NoReplyTo)>>]
    /\ pc' = [pc EXCEPT ![s] = "await_send"]
    /\ UNCHANGED <<processed_queue, DELETE_ORIGINAL_BY_CHAT, config_file, cur,
                   passed, final_text, admissions, cu>>

\* send_message completes, or raises out of handle_message (lines 258-268)
SendDone(s, ok) ==
    /\ pc[s] = "await_send"
    /\ calls' = [calls EXCEPT ![s] = Completed(calls[s], IF ok THEN "ok" ELSE "failed")]
    /\ pc' = [pc EXCEPT ![s] = IF ok THEN "returned" ELSE "raised"]
    /\ UNCHANGED <<processed_queue, DELETE_ORIGINAL_BY_CHAT, config_file, cur,
                   passed, final_text, admissions, cu>>

\* the chats a command may come from: <<chat.id, chat.type>>
CommandChats == {<<-1001, "group">>, <<-1002, "supergroup">>, <<5, "private">>}

\* member.status values get_chat_member may return
MemberStatuses == {"creator", "administrator", "member"}

\* context.args
CommandArgs == {<<>>, <<"ON">>, <<"yes">>, <<"tak">>, <<"off">>, <<"False">>,
                <<"nie">>, <<"maybe">>}

\* the commands issued: <<chat, member.status of the sender, context.args>>;
\* every token from an administrator or the creator of a group, two tokens
\* from a plain member and from a private chat
Commands ==
    ({c \in CommandChats : c[2] # "private"} \X {"creator", "administrator"}
        \X CommandArgs)
    \cup (CommandChats \X {"member"} \X {<<>>, <<"ON">>})

\* str.lower() on the command tokens of the model
LowerArg(a) ==
    CASE a = "ON" -> "on"
      [] a = "False" -> "false"
      [] OTHER -> a

ON_ARGS == {"on", "true", "1", "yes", "tak"}
OFF_ARGS == {"off", "false", "0", "no", "nie"}

\* an assignment that rebuilds the dict with the one key
SetFlag_ForgetOthers(d, chat_id, flag) == [c \in {chat_id} |-> flag]

\* DELETE_ORIGINAL_BY_CHAT[chat_id] = flag
SetFlag(d, chat_id, flag) ==
    [c \in DOMAIN d \cup {chat_id} |-> IF c = chat_id THEN flag ELSE d[c]]

\* set_delete_mode (lines 290-335); written: whether save_config succeeded.
\* The text replied is named by the branch that sends it; past the group test
\* the log starts with the get_chat_member call and the status it returned,
\* and a toggle logs its save_config call before the reply.
SetDeleteMode(s, chat, status, args, written) ==
    /\ FirstFree(s)
    /\ LET m == Command(chat[1], args)
           Log(log) ==
               /\ cur' = [cur EXCEPT ![s] = m]
               /\ passed' = [passed EXCEPT ![s] = FALSE]
               /\ calls' = [calls EXCEPT ![s] = log]
               /\ pc' = [pc EXCEPT ![s] = "returned"]
               /\ final_text' = [final_text EXCEPT ![s] = <<>>]
           Reply(text) == Log(<<GetChatMemberCall(m, status), ReplyCall(m, text)>>)
       IN  IF chat[2] \notin {"group", "supergroup"}
           THEN /\ Log(<<ReplyCall(m, "only_in_group")>>)
                /\ UNCHANGED <<DELETE_ORIGINAL_BY_CHAT, config_file>>
           ELSE IF status \notin {"administrator", "creator", "owner"}
           THEN /\ Reply("only_admins")
                /\ UNCHANGED <<DELETE_ORIGINAL_BY_CHAT, config_file>>
           ELSE IF Len(args) = 0
           THEN /\ Reply(IF Get(DELETE_ORIGINAL_BY_CHAT, chat[1], FALSE)
                         THEN "is_on" ELSE "is_off")
                /\ UNCHANGED <<DELETE_ORIGINAL_BY_CHAT, config_file>>
           ELSE IF LowerArg(args[1]) \in ON_ARGS
           THEN /\ DELETE_ORIGINAL_BY_CHAT' =
                       SetFlag(DELETE_ORIGINAL_BY_CHAT, chat[1], TRUE)
                /\ config_file' =
                       save_config(config_file, DELETE_ORIGINAL_BY_CHAT', written)
                /\ Log(<<GetChatMemberCall(m, status), SaveConfigCall(m, written),
                         ReplyCall(m, "ok_on")>>)
           ELSE IF LowerArg(args[1]) \in OFF_ARGS
           THEN /\ DELETE_ORIGINAL_BY_CHAT' =
                       SetFlag(DELETE_ORIGINAL_BY_CHAT, chat[1], FALSE)
                /\ config_file' =
                       save_config(config_file, DELETE_ORIGINAL_BY_CHAT', written)
                /\ Log(<<GetChatMemberCall(m, status), SaveConfigCall(m, written),
                         ReplyCall(m, "ok_off")>>)
           ELSE /\ Reply("not_understood")
                /\ UNCHANGED <<DELETE_ORIGINAL_BY_CHAT, config_file>>
    /\ UNCHANGED <<processed_queue, admissions, cu>>

-----------------------------------------------------------------------------
(* Specification Spec: messages and commands in the group chats, handled one *)
(* update at a time (the Application is built without concurrent updates);   *)
(* every save_config succeeds                                                *)

\* largest number of ids appended to the dedup cache in a behaviour of Spec
MaxIds == 2

Next ==
    \/ \E s \in Slots, mid \in OfferedIds(MaxIds), chat \in Chats, c \in Contents :
          AllFree /\ HandleMessage(s, Message(mid, chat, c))
    \/ \E s \in Slots, ok \in BOOLEAN : DeleteDone(s, ok)
    \/ \E s \in Slots, ok \in BOOLEAN : SendDone(s, ok)
    \/ \E s \in Slots, c \in Commands :
          AllFree /\ SetDeleteMode(s, c[1], c[2], c[3], TRUE)

Spec == Init /\ [][Next]_vars

-----------------------------------------------------------------------------
(* Specification SpecEvict: enough messages to overflow the dedup cache *)

\* largest number of ids appended to the dedup cache in a behaviour of SpecEvict
MaxAdmit == 12

\* a message that is answered, and one of each kind that is not
EvictContents ==
    ({BodyShort, BodyExample, BodyPlain, BodyEmpty} \X {Alice})
    \cup {<<BodyShort, BotUser>>}

NextEvict ==
    \/ \E s \in Slots, mid \in OfferedIds(MaxAdmit), chat \in Chats,
          c \in EvictContents :
          AllFree /\ HandleMessage(s, Message(mid, chat, c))
    \/ \E s \in Slots, ok \in BOOLEAN : DeleteDone(s, ok)
    \/ \E s \in Slots, ok \in BOOLEAN : SendDone(s, ok)

SpecEvict == Init /\ [][NextEvict]_vars

-----------------------------------------------------------------------------
(* Specification SpecConfig: the toggle command with save_config succeeding *)
(* or failing, and the process stopping and starting again                  *)

\* the process ends (stopped or crashed) and main() runs again: the module
\* state is built anew and load_config reads the file left on disk
Restart ==
    /\ processed_queue' = <<>>
    /\ DELETE_ORIGINAL_BY_CHAT' = load_config(config_file)
    /\ pc' = [s \in Slots |-> "idle"]
    /\ cur' = [s \in Slots |-> NoMessage]
    /\ passed' = [s \in Slots |-> FALSE]
    /\ final_text' = [s \in Slots |-> <<>>]
    /\ calls' = [s \in Slots |-> <<>>]
    /\ admissions' = <<>>
    /\ UNCHANGED <<config_file, cu>>

NextConfig ==
    \/ \E s \in Slots, c \in Commands, written \in BOOLEAN :
          AllFree /\ SetDeleteMode(s, c[1], c[2], c[3], written)
    \/ Restart

SpecConfig == Init /\ [][NextConfig]_vars

-----------------------------------------------------------------------------
(* Specification SpecChats: message ids reused across chats. New ids arrive *)
(* in the first chat only, and the other chat only brings ids that are in   *)
(* the cache, so every id cached was admitted for a message of the first    *)
(* chat                                                                     *)

ChatA == -1001
ChatB == -1002

NextChats ==
    \/ \E s \in Slots, mid \in OfferedIds(MaxIds) \ Range(processed_queue),
          c \in Contents :
          AllFree /\ HandleMessage(s, Message(mid, ChatA, c))
    \/ \E s \in Slots, mid \in Range(processed_queue), c \in Contents :
          AllFree /\ HandleMessage(s, Message(mid, ChatB, c))
    \/ \E s \in Slots, ok \in BOOLEAN : DeleteDone(s, ok)
    \/ \E s \in Slots, ok \in BOOLEAN : SendDone(s, ok)

SpecChats == Init /\ [][NextChats]_vars

-----------------------------------------------------------------------------
(* Specification SpecSilent: one message that is answered, with the first   *)
(* id, among messages that are not: every other id comes with a message of  *)
(* a bot, without text, without URL, or with nothing to clean               *)

AnsweredContent == <<BodyShort, Alice>>

SilentContents ==
    {<<BodyShort, BotUser>>, <<BodyEmpty, Alice>>, <<BodyPlain, Alice>>,
     <<BodyExample, Alice>>}

\* what a message with this id holds
ContentsOf(mid) == IF mid = 1 THEN {AnsweredContent} ELSE SilentContents

NextSilent ==
    \/ \E s \in Slots, mid \in OfferedIds(MaxAdmit), chat \in Chats :
          \E c \in ContentsOf(mid) :
              AllFree /\ HandleMessage(s, Message(mid, chat, c))
    \/ \E s \in Slots, ok \in BOOLEAN : DeleteDone(s, ok)
    \/ \E s \in Slots, ok \in BOOLEAN : SendDone(s, ok)

SpecSilent == Init /\ [][NextSilent]_vars

-----------------------------------------------------------------------------
(* Specification SpecConcurrent: invocations of handle_message interleaved  *)
(* at their awaits, as an Application built with concurrent updates runs    *)
(* them: an invocation starts while others wait for their delete or send    *)

ConcurrentContents == {<<BodyShort, Alice>>, <<BodyExample, Alice>>}

NextConcurrent ==
    \/ \E s \in Slots, mid \in OfferedIds(MaxIds), c \in ConcurrentContents :
          HandleMessage(s, Message(mid, ChatA, c))
    \/ \E s \in Slots, ok \in BOOLEAN : DeleteDone(s, ok)
    \/ \E s \in Slots, ok \in BOOLEAN : SendDone(s, ok)

SpecConcurrent == Init /\ [][NextConcurrent]_vars

-----------------------------------------------------------------------------
(* Specification SpecSplice: the first message the process handles, drawn   *)
(* from texts laid out of words, literal URLs and masked links, with the    *)
(* entities listed in several orders                                        *)

\* largest number of segments (words, literal URLs, masked links) in a text
MaxSegments == 2

\* a short link whose cleaning makes it longer: "?t" becomes "?t="
UrlGrow == <<"https:", "//", "youtu.be", "/p", "?", "t">>

\* a piece of text, the type of the entity that covers it, the entity's url
Seg(text, type, url) == [text |-> text, type |-> type, url |-> url]

SegmentKinds ==
    {Seg(<<"word", " ">>, "none", <<>>),
     Seg(UrlShortSi, "url", <<>>),
     Seg(UrlExample, "url", <<>>),
     Seg(UrlGrow, "url", <<>>),
     Seg(<<"click", "here">>, "text_link", UrlX),
     Seg(<<"label">>, "text_link", UrlShortSi),
     Seg(<<"plain">>, "text_link", UrlExample)}

Layouts == UNION {[1..n -> SegmentKinds] : n \in 1..MaxSegments}

RECURSIVE LayoutText(_)
\* message.text of a layout
LayoutText(l) == IF Len(l) = 0 THEN <<>> ELSE l[1].text \o LayoutText(Tail(l))

RECURSIVE LayoutEntities(_, _)
\* message.entities of a layout whose first segment starts at offset, in
\* the order of the text
LayoutEntities(l, offset) ==
    IF Len(l) = 0 THEN <<>>
    ELSE (IF l[1].type = "none" THEN <<>>
          ELSE <<Ent(l[1].type, offset, Len(l[1].text), l[1].url)>>)
         \o LayoutEntities(Tail(l), offset + Len(l[1].text))

Reversed(seq) == [i \in 1..Len(seq) |-> seq[Len(seq) + 1 - i]]
Rotated(seq) == IF Len(seq) = 0 THEN seq ELSE Tail(seq) \o <<seq[1]>>

\* the orders in which the entities of a message are listed
EntityOrders(ents) == {ents, Reversed(ents), Rotated(ents)}

SpliceBodies ==
    UNION {{Body(LayoutText(l), ents, <<>>, <<>>) :
               ents \in EntityOrders(LayoutEntities(l, 0))} : l \in Layouts}

\* one message is handled: the id offered is the first one, while it is new
NextSplice ==
    \/ \E s \in Slots, mid \in OfferedIds(1) \ Range(processed_queue),
          chat \in Chats, b \in SpliceBodies :
          AllFree /\ HandleMessage(s, Message(mid, chat, <<b, Alice>>))
    \/ \E s \in Slots, ok \in BOOLEAN : DeleteDone(s, ok)
    \/ \E s \in Slots, ok \in BOOLEAN : SendDone(s, ok)

SpecSplice == Init /\ [][NextSplice]_vars

-----------------------------------------------------------------------------
(* Claims about handle_message, checked under Spec and SpecEvict *)

\* slot s holds an invocation of handle_message
Handling(s) == cur[s].handler = "handle_message"

\* the positions of the sends and of the deletes in the call log of slot s
Sends(s) == {i \in 1..Len(calls[s]) : calls[s][i].op = "send_message"}
Deletes(s) == {i \in 1..Len(calls[s]) : calls[s][i].op = "delete_message"}

\* the urls extract_urls returns for the message
UrlsOf(m) == extract_urls(TextOf(m), EntitiesOf(m))

ChangedUrls(urls) == {i \in 1..Len(urls) : clean_url(urls[i][1]) # urls[i][1]}

\* the message passed the dedup gate, is not bot-authored, has text or caption
Eligible(s) ==
    /\ Handling(s)
    /\ passed[s]
    /\ ~(cur[s].from_user.present /\ cur[s].from_user.is_bot)
    /\ TextOf(cur[s]) # <<>>

\* C1: for a message that passes the dedup gate, is not bot-authored and has
\* text or caption, the invocation issues a send (after the delete, in delete
\* mode) if and only if clean_url changes at least one extracted URL; when it
\* changes none, the invocation returns without any send or delete.
C1_SendIffSomeUrlChanged ==
    \A s \in Slots :
        Eligible(s) =>
            IF ChangedUrls(UrlsOf(cur[s])) # {}
            THEN pc[s] = "await_delete" \/ Cardinality(Sends(s)) = 1
            ELSE calls[s] = <<>> /\ pc[s] = "returned"

\* a message with an unchanged URL and changed ones has been answered
C1_Witness ==
    \E s \in Slots :
        /\ Eligible(s)
        /\ ChangedUrls(UrlsOf(cur[s])) # {}
        /\ ChangedUrls(UrlsOf(cur[s])) # 1..Len(UrlsOf(cur[s]))
        /\ \E i \in Sends(s) : calls[s][i].result = "ok"

\* the step is an invocation of handle_message taking slot s
Invoked(s) ==
    /\ Free(s)
    /\ cur'[s].handler = "handle_message"
    /\ <<cur'[s], pc'[s], calls'[s], passed'[s]>> # <<cur[s], pc[s], calls[s], passed[s]>>

\* C2: an invocation of handle_message for a message id that is in the dedup
\* cache returns at the gate: it issues no send and no delete and leaves the
\* cache as it is; and once a message has been handled its id is in the cache,
\* so that a second delivery right after the first is such an invocation.
C2_DuplicateStopsAtGate ==
    /\ [](\A s \in Slots : Handling(s) => cur[s].message_id \in Range(processed_queue))
    /\ [][\A s \in Slots :
            (Invoked(s) /\ cur'[s].message_id \in Range(processed_queue)) =>
                /\ pc'[s] = "returned"
                /\ calls'[s] = <<>>
                /\ processed_queue' = processed_queue]_vars

\* a message that would be answered was delivered again and stopped at the gate
C2_Witness ==
    \E s \in Slots :
        /\ Handling(s)
        /\ ~passed[s]
        /\ Pipeline(cur[s]).verdict = "dispatch"
        /\ pc[s] = "returned"
        /\ calls[s] = <<>>

\* C3: the 10 most recently admitted ids are seen (is_new_message is False for
\* them); an id admitted with at least 10 admissions after it, none of them of
\* that id again, is not seen any more (is_new_message is True for it).
C3_Capacity10OldestFirst ==
    LET n == Len(admissions)
    IN  \A i \in 1..n :
            IF n - i < DEDUP_CACHE_SIZE
            THEN ~is_new_message(processed_queue, admissions[i])
            ELSE (\A j \in (i + 1)..n : admissions[j] # admissions[i])
                     => is_new_message(processed_queue, admissions[i])

\* the first id admitted was evicted by the 11th and has been admitted again
C3_Witness ==
    /\ Len(admissions) = DEDUP_CACHE_SIZE + 2
    /\ admissions[DEDUP_CACHE_SIZE + 2] = admissions[1]
    /\ \A i \in 2..(DEDUP_CACHE_SIZE + 1) : admissions[i] # admissions[1]
    /\ Len(processed_queue) = DEDUP_CACHE_SIZE

\* C4: an invocation that dispatches follows the chat's flag: when it is true
\* the calls are a delete of the original and then, once the delete has
\* completed or failed, one send of the final text without reply-to; when it
\* is false or absent the only call is one send of the final text whose
\* reply-to is the id of the original.
C4_DispatchFollowsFlag ==
    \A s \in Slots :
        (Handling(s) /\ passed[s] /\ Pipeline(cur[s]).verdict = "dispatch") =>
            LET m == cur[s]
                log == calls[s]
            IN  IF Get(DELETE_ORIGINAL_BY_CHAT, m.chat_id, FALSE)
                THEN /\ Len(log) \in {1, 2}
                     /\ log[1].op = "delete_message"
                     /\ log[1].chat_id = m.chat_id
                     /\ log[1].message_id = m.message_id
                     /\ (Len(log) = 1) <=> (pc[s] = "await_delete")
                     /\ Len(log) = 2 =>
                            /\ log[1].result # "pending"
                            /\ log[2].op = "send_message"
                            /\ log[2].chat_id = m.chat_id
                            /\ log[2].text = final_text[s]
                            /\ log[2].reply_to_message_id = NoReplyTo
                ELSE /\ Len(log) = 1
                     /\ log[1].op = "send_message"
                     /\ log[1].chat_id = m.chat_id
                     /\ log[1].text = final_text[s]
                     /\ log[1].reply_to_message_id = m.message_id

\* in a chat whose flag only a command can have set: deleted, then sent
C4_Witness ==
    \E s \in Slots :
        /\ Handling(s)
        /\ cur[s].chat_id = -1002
        /\ Len(calls[s]) = 2
        /\ calls[s][1].op = "delete_message"
        /\ calls[s][1].result = "ok"
        /\ calls[s][2].result = "ok"

\* C5 as stated: no failure of an outbound call ends the invocation, that is,
\* no invocation of handle_message ends by an exception.
C5_NoFailureIsFatal ==
    \A s \in Slots : Handling(s) => pc[s] # "raised"

\* C5, amended: a failed delete is caught and the send follows in the same
\* invocation; a failed send is the one failure that ends the invocation by an
\* exception, and it is the last call; no call is made a second time.
C5_DeleteFailureCaught ==
    \A s \in Slots :
        Handling(s) =>
            LET log == calls[s]
            IN  /\ Cardinality(Deletes(s)) <= 1
                /\ Cardinality(Sends(s)) <= 1
                /\ \A i \in Deletes(s) :
                       log[i].result = "failed" =>
                           /\ Len(log) = i + 1
                           /\ log[i + 1].op = "send_message"
                /\ (pc[s] = "raised") <=>
                       (log # <<>> /\ log[Len(log)].op = "send_message"
                                  /\ log[Len(log)].result = "failed")
                /\ \A i \in Sends(s) : log[i].result = "failed" => i = Len(log)

\* the delete failed, the send was made all the same, and it failed too
C5_Witness ==
    \E s \in Slots :
        /\ Handling(s)
        /\ Len(calls[s]) = 2
        /\ calls[s][1].op = "delete_message"
        /\ calls[s][1].result = "failed"
        /\ calls[s][2].op = "send_message"
        /\ calls[s][2].result = "failed"
        /\ pc[s] = "raised"

-----------------------------------------------------------------------------
(* Claims about clean_url, checked under SpecClean *)

\* the host of the input as the classifier sees it: the netloc, lower-cased
InHost == Lower(urlparse(cu.u).netloc)
InParsed == urlparse(cu.u)
OutParsed == urlparse(cu.r)
InPairs == parse_qsl(InParsed.query)
OutPairs == parse_qsl(OutParsed.query)
Cleaned == cu.phase >= 1 /\ InParsed.error = None

YOUTUBE_STANDARD_HOSTS == YOUTUBE_HOSTS \ YOUTUBE_SHORT_HOSTS

\* C6: for every URL whose host, compared case-insensitively, is youtu.be, the
\* result of clean_url keeps at most one parameter, named t, and no parameter
\* of any other name.
C6_ShortLinkKeepsAtMostOneT ==
    (Cleaned /\ InHost \in YOUTUBE_SHORT_HOSTS) =>
        /\ Len(OutPairs) <= 1
        /\ \A i \in 1..Len(OutPairs) : OutPairs[i][1] = <<"t">>

\* C7: for every URL on youtube.com, www.youtube.com or m.youtube.com the
\* parameters of the result are exactly the input parameters whose key is in
\* {v, t, time_continue, list, index}, in their original order.
C7_StandardKeepsAllowedInOrder ==
    (Cleaned /\ InHost \in YOUTUBE_STANDARD_HOSTS) =>
        OutPairs = SelectSeq(InPairs, LAMBDA kv : KeyIn(kv[1], YOUTUBE_ALLOWED_PARAMS))

\* C7 witness: a standard-host URL of three parameters, two of them kept (with
\* different keys) and one dropped.
C7_Witness ==
    /\ Cleaned /\ InHost \in YOUTUBE_STANDARD_HOSTS
    /\ Len(InPairs) = 3 /\ Len(OutPairs) = 2
    /\ OutPairs[1][1] # OutPairs[2][1]
    /\ InPairs[2][1] = <<"si">>

\* C8: for every URL on a microblog host the result has an empty query, and
\* its scheme, host, path and fragment are those of the input.
C8_TwitterDropsWholeQuery ==
    (Cleaned /\ InHost \in TWITTER_HOSTS) =>
        /\ OutParsed.query = <<>>
        /\ "?" \notin Range(SubSeq(cu.r, 1, Len(cu.r) - Len(OutParsed.fragment)))
        /\ OutParsed.scheme = InParsed.scheme
        /\ OutParsed.netloc = InParsed.netloc
        /\ OutParsed.path = InParsed.path
        /\ OutParsed.fragment = InParsed.fragment

\* C8 witness: a microblog URL with a path, a fragment and a query of
\* parameters that the video allow-list would keep, cleaned to another string.
C8_Witness ==
    /\ Cleaned /\ InHost \in TWITTER_HOSTS
    /\ Len(InPairs) >= 2 /\ InPairs[1][1] = <<"t">>
    /\ InParsed.path # <<>> /\ InParsed.fragment # <<>>
    /\ cu.r # cu.u

\* C9: an input whose host is in neither host set (an input without host and
\* one that urlparse rejects included) is returned unchanged.
C9_UnknownHostUnchanged ==
    (cu.phase >= 1 /\ (InParsed.error # None
                        \/ InHost \notin (YOUTUBE_HOSTS \cup TWITTER_HOSTS))) =>
        cu.r = cu.u

\* C9 witnesses: an unknown-host URL with a tracking parameter, returned as is.
C9_Witness ==
    /\ cu.phase >= 1 /\ InParsed.error = None
    /\ InParsed.netloc = "youtu.be:443"
    /\ \E i \in 1..Len(InPairs) : InPairs[i][1] = <<"si">>
    /\ cu.r = cu.u

\* C10: clean_url(clean_url(u)) = clean_url(u) for every input u.
C10_Idempotent == cu.phase = 2 => cu.rr = cu.r

\* C10 witness: a URL that the first application changes, applied twice.
C10_Witness ==
    /\ cu.phase = 2 /\ cu.r # cu.u /\ cu.rr = cu.r
    /\ InHost \in YOUTUBE_HOSTS
    /\ Len(InPairs) = 3 /\ Len(OutPairs) = 1
    /\ OutPairs[1][2] = <<"a b">>

-----------------------------------------------------------------------------
(* Claims about the text posted, checked under SpecSplice *)

\* the invocation of slot s went on to post
Posting(s) == Handling(s) /\ final_text[s] # <<>>

\* the text posted without its intro and attribution lines
PostedText(s) == SliceFrom(final_text[s], Len(FinalText(cur[s], "", <<>>)))

BlockLabel == "\n\nCleaned links:\n"

\* the masked links of the message that cleaning changes, in entity order
ChangedLinks(m) ==
    SelectSeq(EntitiesOf(m),
              LAMBDA e : e.type = "text_link" /\ e.url # <<>> /\ clean_url(e.url) # e.url)

\* the labeled block expected for the message
ExpectedBlock(m) ==
    LET links == ChangedLinks(m)
    IN  IF Len(links) = 0 THEN <<>>
        ELSE <<BlockLabel>> \o Join([i \in 1..Len(links) |-> clean_url(links[i].url)], "\n")

RECURSIVE ShiftBefore(_, _, _)
\* by how much the literal URLs before offset grow or shrink when cleaned
ShiftBefore(text, ents, offset) ==
    IF Len(ents) = 0 THEN 0
    ELSE LET e == ents[1]
             d == IF e.type = "url" /\ e.offset < offset
                  THEN Len(clean_url(Slice(text, e.offset, e.offset + e.length))) - e.length
                  ELSE 0
         IN  d + ShiftBefore(text, Tail(ents), offset)

\* C11: the text posted ends with the labeled block that lists, one line per
\* masked link whose URL cleaning changes and in entity order, the cleaned
\* URL; masked links whose URL is unchanged add no line, and without a changed
\* masked link there is no block; the label of every masked link stands in the
\* body as it was written.
C11_MaskedLinksListedLabelsKept ==
    \A s \in Slots :
        Posting(s) =>
            LET m == cur[s]
                posted == PostedText(s)
                block == ExpectedBlock(m)
                body == Slice(posted, 0, Len(posted) - Len(block))
                ents == EntitiesOf(m)
            IN  /\ Len(posted) >= Len(block)
                /\ SliceFrom(posted, Len(posted) - Len(block)) = block
                /\ BlockLabel \notin Range(body)
                /\ \A i \in 1..Len(ents) :
                       ents[i].type = "text_link" =>
                           LET at == ents[i].offset
                                     + ShiftBefore(TextOf(m), ents, ents[i].offset)
                           IN  Slice(body, at, at + ents[i].length)
                               = Slice(TextOf(m), ents[i].offset,
                                       ents[i].offset + ents[i].length)

\* posted: two changed masked links, listed against the order of the text
C11_Witness ==
    \E s \in Slots :
        /\ Posting(s)
        /\ Len(ChangedLinks(cur[s])) = 2
        /\ ChangedLinks(cur[s])[1].offset > ChangedLinks(cur[s])[2].offset
        /\ ChangedLinks(cur[s])[1].url # ChangedLinks(cur[s])[2].url
        /\ \E i \in Sends(s) : calls[s][i].result = "ok"

RECURSIVE Simultaneous(_, _, _)
\* text from position p on with the slice of every literal-url entity
\* replaced by its cleaned URL, read off from left to right
Simultaneous(text, ents, p) ==
    IF p >= Len(text) THEN <<>>
    ELSE LET here == {i \in 1..Len(ents) :
                         ents[i].type = "url" /\ ents[i].offset = p /\ ents[i].length > 0}
         IN  IF here = {}
             THEN <<text[p + 1]>> \o Simultaneous(text, ents, p + 1)
             ELSE LET e == ents[CHOOSE i \in here : TRUE]
                  IN  clean_url(Slice(text, p, p + e.length))
                      \o Simultaneous(text, ents, p + e.length)

\* the literal-url entities of the message
LiteralUrls(m) == SelectSeq(EntitiesOf(m), LAMBDA e : e.type = "url")

\* C14: whatever the order of the entities, the body posted is the original
\* text with the slice of every literal-url entity replaced by its cleaned
\* URL and everything outside those slices as it was; what follows the body,
\* if anything, is the labeled block.
C14_ReconstructionOrderIndependent ==
    \A s \in Slots :
        Posting(s) =>
            LET m == cur[s]
                posted == PostedText(s)
                body == Simultaneous(TextOf(m), EntitiesOf(m), 0)
            IN  /\ Slice(posted, 0, Len(body)) = body
                /\ Len(posted) > Len(body) => posted[Len(body) + 1] = BlockLabel

\* posted: two literal URLs that cleaning changes in length, the later one
\* listed first
C14_Witness ==
    \E s \in Slots :
        /\ Posting(s)
        /\ Len(LiteralUrls(cur[s])) = 2
        /\ LiteralUrls(cur[s])[1].offset > LiteralUrls(cur[s])[2].offset
        /\ \A i \in 1..2 :
               LET e == LiteralUrls(cur[s])[i]
               IN  Len(clean_url(Slice(TextOf(cur[s]), e.offset, e.offset + e.length)))
                   # e.length
        /\ \E i \in Sends(s) : calls[s][i].result = "ok"

-----------------------------------------------------------------------------
(* Claims about the per-chat configuration, checked under Spec and SpecConfig *)

\* slot s holds an invocation of set_delete_mode
Commanding(s) == cur[s].handler = "set_delete_mode"

\* chat.type of the chat with this id
ChatTypeOf(chat_id) == (CHOOSE c \in CommandChats : c[1] = chat_id)[2]

\* the log is one of a command sent in a group by an administrator or the creator
ByGroupAdmin(chat_id, log) ==
    /\ ChatTypeOf(chat_id) \in {"group", "supergroup"}
    /\ log # <<>>
    /\ log[1].op = "get_chat_member"
    /\ log[1].result \in {"administrator", "creator"}

\* the step is a command of a group administrator whose first token, in lower
\* case, is in on or in off, and it sets the flag of the command's chat to
\* true or to false accordingly and leaves every other chat's entry as it was
ToggleStep(on, off) ==
    \E s \in Slots :
        /\ Free(s)
        /\ cur'[s].handler = "set_delete_mode"
        /\ ByGroupAdmin(cur'[s].chat_id, calls'[s])
        /\ Len(cur'[s].text) >= 2
        /\ \E b \in BOOLEAN :
               /\ LowerArg(cur'[s].text[2]) \in (IF b THEN on ELSE off)
               /\ DOMAIN DELETE_ORIGINAL_BY_CHAT' =
                      DOMAIN DELETE_ORIGINAL_BY_CHAT \cup {cur'[s].chat_id}
               /\ DELETE_ORIGINAL_BY_CHAT'[cur'[s].chat_id] = b
               /\ \A k \in DOMAIN DELETE_ORIGINAL_BY_CHAT \ {cur'[s].chat_id} :
                      DELETE_ORIGINAL_BY_CHAT'[k] = DELETE_ORIGINAL_BY_CHAT[k]

\* C12 as stated: the map changes only by a command of an administrator or the
\* creator in a group whose token is one of on/true/1/yes (flag set to true) or
\* off/false/0/no (flag set to false), case-insensitively; every other step,
\* a command with any other token included, leaves the whole map unchanged.
C12_OnlyListedTokensToggle ==
    [][DELETE_ORIGINAL_BY_CHAT' # DELETE_ORIGINAL_BY_CHAT
          => ToggleStep({"on", "true", "1", "yes"}, {"off", "false", "0", "no"})]_vars

\* C12, amended: the same with the tokens the code accepts, tak among those
\* that set the flag and nie among those that clear it; and after an accepted
\* toggle the flag of the command's chat is the value the token stands for.
C12_OnlyAdminToggleMutates ==
    /\ [][DELETE_ORIGINAL_BY_CHAT' # DELETE_ORIGINAL_BY_CHAT
             => ToggleStep({"on", "true", "1", "yes", "tak"},
                           {"off", "false", "0", "no", "nie"})]_vars
    /\ [](\A s \in Slots :
             (/\ Commanding(s)
              /\ ByGroupAdmin(cur[s].chat_id, calls[s])
              /\ Len(cur[s].text) >= 2
              /\ LowerArg(cur[s].text[2]) \in
                     {"on", "true", "1", "yes", "tak", "off", "false", "0", "no", "nie"})
             => /\ cur[s].chat_id \in DOMAIN DELETE_ORIGINAL_BY_CHAT
                /\ DELETE_ORIGINAL_BY_CHAT[cur[s].chat_id]
                   = (LowerArg(cur[s].text[2]) \in {"on", "true", "1", "yes", "tak"}))

\* an administrator switched the mode on with tak in one chat; the flag loaded
\* for the other chat is still there
C12_Witness ==
    \E s \in Slots :
        /\ Commanding(s)
        /\ cur[s].chat_id = -1002
        /\ cur[s].text = <<"/cleanlinks_delete", "tak">>
        /\ ByGroupAdmin(-1002, calls[s])
        /\ DOMAIN DELETE_ORIGINAL_BY_CHAT = {-1001, -1002}
        /\ DELETE_ORIGINAL_BY_CHAT[-1002]
        /\ DELETE_ORIGINAL_BY_CHAT[-1001]

\* the save_config call of the log failed
SaveFailed(log) ==
    \E i \in 1..Len(log) : log[i].op = "save_config" /\ log[i].result = "failed"

\* C13: a command whose save_config fails leaves CONFIG_FILE as it was and
\* returns normally, its reply sent; and when the process has just started
\* over a missing or corrupt file, the in-memory map is empty.
C13_ConfigFailuresDegrade ==
    /\ [][\A s \in Slots :
             (cur'[s].handler = "set_delete_mode" /\ SaveFailed(calls'[s])) =>
                 /\ config_file' = config_file
                 /\ pc'[s] = "returned"
                 /\ calls'[s][Len(calls'[s])].op = "reply_text"]_vars
    /\ []((\A s \in Slots : pc[s] = "idle") =>
             /\ config_file.kind \in {"missing", "corrupt"}
                    => DOMAIN DELETE_ORIGINAL_BY_CHAT = {}
             /\ DELETE_ORIGINAL_BY_CHAT = load_config(config_file))

\* a toggle whose save failed: the file still holds what it held, which is
\* not what the process has in memory
C13_Witness ==
    \E s \in Slots :
        /\ Commanding(s)
        /\ SaveFailed(calls[s])
        /\ pc[s] = "returned"
        /\ config_file = JsonFile([k \in {"-1001"} |-> TRUE])
        /\ DOMAIN DELETE_ORIGINAL_BY_CHAT = {-1001, -1002}

\* the reply of the log confirms a toggle
Confirmed(log) ==
    log # <<>> /\ log[Len(log)].op = "reply_text"
               /\ log[Len(log)].text \in {<<"ok_on">>, <<"ok_off">>}

\* C15: when set_delete_mode has sent its confirmation for a toggle of chat c
\* to b, CONFIG_FILE maps c to b: load_config of the file on disk gives b for c.
C15_ConfirmedMeansPersisted ==
    \A s \in Slots :
        (Commanding(s) /\ Confirmed(calls[s])) =>
            LET c == cur[s].chat_id
                b == calls[s][Len(calls[s])].text = <<"ok_on">>
            IN  /\ c \in DOMAIN load_config(config_file)
                /\ load_config(config_file)[c] = b

-----------------------------------------------------------------------------
(* Claims about eligibility and the dedup cache *)

\* the message has a literal-url or masked-link entity
HasLinkEntity(m) ==
    \E i \in 1..Len(EntitiesOf(m)) : EntitiesOf(m)[i].type \in {"url", "text_link"}

\* C16: an invocation for a message authored by a bot, or with neither text
\* nor caption, or without a literal-url or masked-link entity, returns without
\* any send or delete, whatever the chat and its delete-mode flag.
C16_IneligibleMessagesSilent ==
    \A s \in Slots :
        (/\ Handling(s)
         /\ \/ cur[s].from_user.present /\ cur[s].from_user.is_bot
            \/ cur[s].text = <<>> /\ cur[s].caption = <<>>
            \/ ~HasLinkEntity(cur[s]))
        => calls[s] = <<>> /\ pc[s] = "returned"

\* a bot's message with a cleanable URL passed the gate in a chat in delete
\* mode and was left alone
C16_Witness ==
    \E s \in Slots :
        /\ Handling(s)
        /\ passed[s]
        /\ cur[s].from_user.present /\ cur[s].from_user.is_bot
        /\ ChangedUrls(UrlsOf(cur[s])) # {}
        /\ Get(DELETE_ORIGINAL_BY_CHAT, cur[s].chat_id, FALSE)
        /\ calls[s] = <<>>
        /\ pc[s] = "returned"

\* the step is an invocation of handle_message taking slot s, the first free
Offered(s) ==
    /\ FirstFree(s)
    /\ cur'[s].handler = "handle_message"
    /\ \/ <<cur'[s], pc'[s], calls'[s], passed'[s]>> # <<cur[s], pc[s], calls[s], passed[s]>>
       \/ processed_queue' # processed_queue

\* C17: the cache never holds more than 10 ids nor an id twice, and it is the
\* last ids admitted in the order of their admission; an invocation for an id
\* in the cache finds it seen and leaves the cache as it is, order included;
\* one for an absent id appends it, dropping the oldest entry exactly when the
\* cache held 10; nothing else changes the cache.
C17_CacheInvariant ==
    /\ [](/\ Len(processed_queue) <= 10
          /\ \A i, j \in 1..Len(processed_queue) :
                 i # j => processed_queue[i] # processed_queue[j]
          /\ Len(processed_queue) <= Len(admissions)
          /\ processed_queue =
                 SubSeq(admissions, Len(admissions) - Len(processed_queue) + 1,
                        Len(admissions)))
    /\ [][/\ \A s \in Slots :
                 Offered(s) =>
                     IF cur'[s].message_id \in Range(processed_queue)
                     THEN ~passed'[s] /\ processed_queue' = processed_queue
                     ELSE /\ passed'[s]
                          /\ processed_queue' =
                                 (IF Len(processed_queue) = 10
                                  THEN Tail(processed_queue) ELSE processed_queue)
                                 \o <<cur'[s].message_id>>
          /\ processed_queue' # processed_queue => \E s \in Slots : Offered(s)]_vars

\* after an eviction the oldest entry of the full cache was offered again,
\* found seen, and is still the oldest
C17_Witness ==
    \E s \in Slots :
        /\ Handling(s)
        /\ ~passed[s]
        /\ Len(admissions) > 10
        /\ Len(processed_queue) = 10
        /\ cur[s].message_id = processed_queue[1]

\* C18: the gate looks at the message id alone: an invocation for a message
\* of another chat whose id is in the cache, admitted for a message of the
\* first chat, finds it seen and returns without send or delete and without
\* touching the cache, also when the message holds a URL that would be cleaned.
C18_GateKeyedByIdAlone ==
    /\ [](\A s \in Slots :
             (Handling(s) /\ cur[s].chat_id = ChatB) =>
                 /\ ~passed[s]
                 /\ calls[s] = <<>>
                 /\ pc[s] = "returned"
                 /\ cur[s].message_id \in Range(processed_queue))
    /\ [][\A s \in Slots :
             (Offered(s) /\ cur'[s].chat_id = ChatB) =>
                 processed_queue' = processed_queue]_vars

\* a message with a cleanable URL in the other chat, carrying the older of
\* two cached ids, was dropped at the gate
C18_Witness ==
    \E s \in Slots :
        /\ Handling(s)
        /\ cur[s].chat_id = ChatB
        /\ ~passed[s]
        /\ Len(processed_queue) = 2
        /\ cur[s].message_id = processed_queue[1]
        /\ Pipeline(cur[s]).verdict = "dispatch"
        /\ calls[s] = <<>>

\* the message of slot s is one handle_message does not answer
Silent(s) == Handling(s) /\ cur[s].message_id # 1

\* C19: a message of a bot, without text, without URL or with nothing to
\* clean is recorded although nothing is posted for it: after the invocation
\* its id is in the cache, admitted if it was not there; so such messages
\* alone push out the id of the message that was answered, once 10 of them
\* have been admitted after it, and a redelivery of that message passes the
\* gate again and is answered again.
C19_SilentMessagesAreRecorded ==
    /\ [](\A s \in Slots :
             Silent(s) =>
                 /\ Pipeline(cur[s]).verdict # "dispatch"
                 /\ calls[s] = <<>>
                 /\ cur[s].message_id \in Range(processed_queue)
                 /\ cur[s].message_id \in Range(admissions))
    /\ [][\A s \in Slots :
             (Offered(s) /\ Silent(s)' /\ cur'[s].message_id \notin Range(processed_queue))
                 => admissions' = Append(admissions, cur'[s].message_id)]_vars
    /\ []((/\ Len(admissions) > 10
           /\ \A i \in (Len(admissions) - 9)..Len(admissions) : admissions[i] # 1)
          => is_new_message(processed_queue, 1))
    /\ [](\A s \in Slots :
             (Handling(s) /\ cur[s].message_id = 1 /\ passed[s]) =>
                 \/ pc[s] = "await_delete"
                 \/ Cardinality(Sends(s)) = 1)

\* the answered message was pushed out by 10 messages that were not answered,
\* delivered again, and answered again
C19_Witness ==
    \E s \in Slots :
        /\ Len(admissions) = 12
        /\ admissions[1] = 1
        /\ admissions[12] = 1
        /\ \A i \in 2..11 : admissions[i] # 1
        /\ Handling(s)
        /\ cur[s].message_id = 1
        /\ passed[s]
        /\ \E i \in Sends(s) : calls[s][i].result = "ok"

-----------------------------------------------------------------------------
(* Claim about interleaved invocations, checked under SpecConcurrent *)

\* C20: with invocations interleaved at their awaits and no more ids than
\* the cache holds, an id is admitted at most once: an invocation passes the
\* gate only with an id never admitted before, no two invocations in progress
\* or finished hold the same id having both passed, and only an invocation
\* that passed issues calls, one send at most; so at most one send is issued
\* for an id.
C20_OnePassesPerId ==
    /\ [](Len(admissions) <= 10 =>
             \A i, j \in 1..Len(admissions) : i # j => admissions[i] # admissions[j])
    /\ [](\A s, t \in Slots :
             (s # t /\ Handling(s) /\ Handling(t)
                    /\ cur[s].message_id = cur[t].message_id)
                 => ~(passed[s] /\ passed[t]))
    /\ [](\A s \in Slots :
             Handling(s) => /\ Cardinality(Sends(s)) <= 1
                            /\ calls[s] # <<>> => passed[s])
    /\ [][\A s \in Slots :
             (Offered(s) /\ passed'[s]) => cur'[s].message_id \notin Range(admissions)]_vars

\* while one invocation waits for its delete or its send, a second one with
\* the same id and a cleanable URL has come and returned at the gate
C20_Witness ==
    \E s, t \in Slots :
        /\ s # t
        /\ Handling(s) /\ Handling(t)
        /\ cur[s].message_id = cur[t].message_id
        /\ passed[s]
        /\ pc[s] \in {"await_delete", "await_send"}
        /\ ~passed[t]
        /\ Pipeline(cur[t]).verdict = "dispatch"
        /\ pc[t] = "returned"
        /\ calls[t] = <<>>

====
